---- MODULE Spec2Model ----
(***************************************************************************)
(* Model of src/server.py: a note store kept in one JSON file              *)
(* (NOTES_FILE) and the tool dispatcher handle_call_tool, which loads the  *)
(* whole file, applies one of five tools and saves the whole file again.   *)
(*                                                                         *)
(* Text is a sequence of one-character strings.  The file holds the very   *)
(* characters json.dump(notes, f, indent=2) writes, and load_notes parses  *)
(* them back character by character as json.load does.  A Python dict is  *)
(* a sequence of [k, v] entries in insertion order.  A result text is a    *)
(* sequence of strings too: the literal pieces of an f-string are single   *)
(* elements, the interpolated title/content contribute their characters,   *)
(* and every line feed is an element of its own.                           *)
(***************************************************************************)
EXTENDS Integers, Sequences, FiniteSets, TLC

VARIABLES file, last

vars == <<file, last>>

(* ---------------- bounds and input pools ---------------- *)

MaxTitles == 2

MaxContents == 2

LF == "\n"

QUOTE == "\""

BACKSLASH == "\\"

TitlePool ==
  << <<>>, <<"A", LF, QUOTE>>, <<"B">>, <<BACKSLASH, "n">> >>

ContentPool ==
  << <<>>, <<"m", LF, QUOTE, BACKSLASH, "n">>, <<"m">>, <<BACKSLASH, QUOTE>> >>

Titles == {TitlePool[i] : i \in 1..MaxTitles}

Contents == {ContentPool[i] : i \in 1..MaxContents}

(* ---------------- Python dict (insertion ordered) ---------------- *)

EmptyDict == <<>>

Keys(notes) == [i \in 1..Len(notes) |-> notes[i].k]

Contains(notes, title) == \E i \in 1..Len(notes) : notes[i].k = title

IndexOf(notes, title) == CHOOSE i \in 1..Len(notes) : notes[i].k = title

GetItem(notes, title) == notes[IndexOf(notes, title)].v

SetItem_MoveToEnd(notes, title, content) ==
  Append(SelectSeq(notes, LAMBDA e : e.k # title), [k |-> title, v |-> content])

SetItem_Merge(notes, title, content) ==
  IF Contains(notes, title)
  THEN [i \in 1..Len(notes) |->
          IF notes[i].k = title
          THEN [k |-> title, v |-> notes[i].v \o content] ELSE notes[i]]
  ELSE Append(notes, [k |-> title, v |-> content])

SetItem(notes, title, content) ==
  IF Contains(notes, title)
  THEN [i \in 1..Len(notes) |->
          IF notes[i].k = title THEN [k |-> title, v |-> content] ELSE notes[i]]
  ELSE Append(notes, [k |-> title, v |-> content])

DelItem_First(notes, title) == Tail(notes)

DelItem(notes, title) ==
  LET p == IndexOf(notes, title) IN
  [i \in 1..(Len(notes) - 1) |-> IF i < p THEN notes[i] ELSE notes[i + 1]]

(* ---------------- json.dump(notes, f, indent=2) ---------------- *)

EscapeChar_RawBackslash(c) ==
  IF c = QUOTE THEN <<BACKSLASH, QUOTE>>
  ELSE IF c = LF THEN <<BACKSLASH, "n">>
  ELSE <<c>>

EscapeChar(c) ==
  IF c = QUOTE THEN <<BACKSLASH, QUOTE>>
  ELSE IF c = BACKSLASH THEN <<BACKSLASH, BACKSLASH>>
  ELSE IF c = LF THEN <<BACKSLASH, "n">>
  ELSE <<c>>

RECURSIVE EscapeBody(_)
EscapeBody(s) ==
  IF s = <<>> THEN <<>> ELSE EscapeChar(Head(s)) \o EscapeBody(Tail(s))

EncodeString(s) == <<QUOTE>> \o EscapeBody(s) \o <<QUOTE>>

EncodeItem(e) == EncodeString(e.k) \o <<":", " ">> \o EncodeString(e.v)

RECURSIVE EncodeItems(_)
EncodeItems(notes) ==
  IF Len(notes) = 1 THEN EncodeItem(notes[1])
  ELSE EncodeItem(Head(notes)) \o <<",", LF, " ", " ">> \o EncodeItems(Tail(notes))

JsonDump(notes) ==
  IF notes = <<>> THEN <<"{", "}">>
  ELSE <<"{", LF, " ", " ">> \o EncodeItems(notes) \o <<LF, "}">>

(* ---------------- json.load(f) ---------------- *)

Whitespace == {" ", LF, "\t", "\r"}

Fail == [ok |-> FALSE, val |-> <<>>, next |-> 0]

RECURSIVE SkipWs(_, _)
SkipWs(s, i) ==
  IF i <= Len(s) /\ s[i] \in Whitespace THEN SkipWs(s, i + 1) ELSE i

Unescape(c) ==
  IF c = "n" THEN LF
  ELSE IF c = "t" THEN "\t"
  ELSE IF c = "r" THEN "\r"
  ELSE c

RECURSIVE ScanString(_, _, _)
ScanString(s, i, acc) ==
  IF i > Len(s) THEN Fail
  ELSE IF s[i] = QUOTE THEN [ok |-> TRUE, val |-> acc, next |-> i + 1]
  ELSE IF s[i] = BACKSLASH
       THEN IF i + 1 <= Len(s) /\ s[i + 1] \in {QUOTE, BACKSLASH, "/", "n", "t", "r"}
            THEN ScanString(s, i + 2, Append(acc, Unescape(s[i + 1])))
            ELSE Fail
  ELSE IF s[i] \in {LF, "\t", "\r"} THEN Fail
  ELSE ScanString(s, i + 1, Append(acc, s[i]))

RECURSIVE ScanMembers(_, _, _)
ScanMembers(s, i, acc) ==
  IF i > Len(s) \/ s[i] # QUOTE THEN Fail
  ELSE
    LET key == ScanString(s, i + 1, <<>>) IN
    IF ~key.ok THEN Fail
    ELSE
      LET c == SkipWs(s, key.next) IN
      IF c > Len(s) \/ s[c] # ":" THEN Fail
      ELSE
        LET b == SkipWs(s, c + 1) IN
        IF b > Len(s) \/ s[b] # QUOTE THEN Fail
        ELSE
          LET value == ScanString(s, b + 1, <<>>) IN
          IF ~value.ok THEN Fail
          ELSE
            LET e == SkipWs(s, value.next)
                dict == SetItem(acc, key.val, value.val)
            IN
            IF e > Len(s) THEN Fail
            ELSE IF s[e] = "}" THEN [ok |-> TRUE, val |-> dict, next |-> e + 1]
            ELSE IF s[e] = "," THEN ScanMembers(s, SkipWs(s, e + 1), dict)
            ELSE Fail

JsonLoad(s) ==
  LET a == SkipWs(s, 1) IN
  IF a > Len(s) \/ s[a] # "{" THEN Fail
  ELSE
    LET b == SkipWs(s, a + 1)
        obj == IF b <= Len(s) /\ s[b] = "}"
               THEN [ok |-> TRUE, val |-> EmptyDict, next |-> b + 1]
               ELSE ScanMembers(s, b, EmptyDict)
    IN
    IF obj.ok /\ SkipWs(s, obj.next) > Len(s) THEN obj ELSE Fail

(* ---------------- storage functions ---------------- *)

NoFile == [exists |-> FALSE, data |-> <<>>]

load_notes_Cached(f) ==
  LET g == IF last.io # <<>> THEN last.before ELSE f IN
  IF g.exists
  THEN LET r == JsonLoad(g.data) IN [ok |-> r.ok, notes |-> r.val]
  ELSE [ok |-> TRUE, notes |-> EmptyDict]

load_notes(f) ==
  IF f.exists
  THEN LET r == JsonLoad(f.data) IN [ok |-> r.ok, notes |-> r.val]
  ELSE [ok |-> TRUE, notes |-> EmptyDict]

save_notes_Append(notes) ==
  [exists |-> TRUE, data |-> file.data \o JsonDump(notes)]

save_notes(notes) == [exists |-> TRUE, data |-> JsonDump(notes)]

(* ---------------- tool registry ---------------- *)

handle_list_tools_Sorted ==
  << [name |-> "create_note", required |-> {"title", "content"}],
     [name |-> "delete_note", required |-> {"title"}],
     [name |-> "list_notes",  required |-> {}],
     [name |-> "read_note",   required |-> {"title"}],
     [name |-> "update_note", required |-> {"title", "content"}] >>

handle_list_tools ==
  << [name |-> "create_note", required |-> {"title", "content"}],
     [name |-> "read_note",   required |-> {"title"}],
     [name |-> "list_notes",  required |-> {}],
     [name |-> "update_note", required |-> {"title", "content"}],
     [name |-> "delete_note", required |-> {"title"}] >>

ToolNames == {handle_list_tools[i].name : i \in 1..Len(handle_list_tools)}

Required(name) ==
  handle_list_tools[
    CHOOSE i \in 1..Len(handle_list_tools) : handle_list_tools[i].name = name
  ].required

(* ---------------- arguments: dict[str, Any] ---------------- *)
(* An argument that is absent from the mapping is <<>>, one that is        *)
(* present with text x is <<x>>.                                           *)

HasArg(arguments, key) == arguments[key] # <<>>

Arg(arguments, key) == arguments[key][1]

(* ---------------- result texts (the f-strings) ---------------- *)

CreatedText(title) == <<"Successfully created note '">> \o title \o <<"'">>

DuplicateText(title) ==
  <<"Error: A note with title '">> \o title
    \o <<"' already exists. Use update_note to modify it.">>

ReadText(title, content) == <<"Note '">> \o title \o <<"':", LF, LF>> \o content

NotFoundText(title) == <<"Error: No note found with title '">> \o title \o <<"'">>

EmptyListText == <<"No notes found. Create your first note!">>

RECURSIVE JoinTitles(_)
JoinTitles(keys) ==
  IF Len(keys) = 1 THEN <<"- ">> \o keys[1]
  ELSE <<"- ">> \o Head(keys) \o <<LF>> \o JoinTitles(Tail(keys))

ListText(notes) ==
  <<"Available notes (", ToString(Len(notes)), "):", LF>> \o JoinTitles(Keys(notes))

UpdateNotFoundText(title) ==
  <<"Error: No note found with title '">> \o title
    \o <<"'. Use create_note to make a new one.">>

UpdatedText(title) == <<"Successfully updated note '">> \o title \o <<"'">>

DeletedText(title) == <<"Successfully deleted note '">> \o title \o <<"'">>

UnknownToolText(name) == <<"Unknown tool: ", name>>

(* ---------------- handle_call_tool ---------------- *)
(* The outcome of one invocation: what it returns or raises, the file it   *)
(* leaves behind, and the storage calls it made, in order.                 *)

Return(text, f, io) ==
  [result |-> [raised |-> "none", text |-> text], file |-> f, io |-> io]

Raise(exc, text, f, io) ==
  [result |-> [raised |-> exc, text |-> text], file |-> f, io |-> io]

Saved(text, notes, io) == Return(text, save_notes(notes), io \o <<"save">>)

create_note_Fresh(arguments, notes, f, io) ==
  IF ~HasArg(arguments, "title") THEN Raise("KeyError", <<"title">>, f, io)
  ELSE IF ~HasArg(arguments, "content") THEN Raise("KeyError", <<"content">>, f, io)
  ELSE
    LET title == Arg(arguments, "title")
        content == Arg(arguments, "content")
    IN
    IF Contains(notes, title) THEN Return(DuplicateText(title), f, io)
    ELSE Saved(CreatedText(title), SetItem(EmptyDict, title, content), io)

create_note_Overwrite(arguments, notes, f, io) ==
  IF ~HasArg(arguments, "title") THEN Raise("KeyError", <<"title">>, f, io)
  ELSE IF ~HasArg(arguments, "content") THEN Raise("KeyError", <<"content">>, f, io)
  ELSE
    LET title == Arg(arguments, "title")
        content == Arg(arguments, "content")
    IN
    Saved(CreatedText(title), SetItem(notes, title, content), io)

create_note(arguments, notes, f, io) ==
  IF ~HasArg(arguments, "title") THEN Raise("KeyError", <<"title">>, f, io)
  ELSE IF ~HasArg(arguments, "content") THEN Raise("KeyError", <<"content">>, f, io)
  ELSE
    LET title == Arg(arguments, "title")
        content == Arg(arguments, "content")
    IN
    IF Contains(notes, title) THEN Return(DuplicateText(title), f, io)
    ELSE Saved(CreatedText(title), SetItem(notes, title, content), io)

read_note_Falsy(arguments, notes, f, io) ==
  IF ~HasArg(arguments, "title") THEN Raise("KeyError", <<"title">>, f, io)
  ELSE
    LET title == Arg(arguments, "title") IN
    IF ~Contains(notes, title) \/ GetItem(notes, title) = <<>>
    THEN Return(NotFoundText(title), f, io)
    ELSE Return(ReadText(title, GetItem(notes, title)), f, io)

read_note_Saving(arguments, notes, f, io) ==
  IF ~HasArg(arguments, "title") THEN Raise("KeyError", <<"title">>, f, io)
  ELSE
    LET title == Arg(arguments, "title") IN
    IF ~Contains(notes, title) THEN Return(NotFoundText(title), f, io)
    ELSE Saved(ReadText(title, GetItem(notes, title)), notes, io)

read_note(arguments, notes, f, io) ==
  IF ~HasArg(arguments, "title") THEN Raise("KeyError", <<"title">>, f, io)
  ELSE
    LET title == Arg(arguments, "title") IN
    IF ~Contains(notes, title) THEN Return(NotFoundText(title), f, io)
    ELSE Return(ReadText(title, GetItem(notes, title)), f, io)

list_notes(notes, f, io) ==
  IF Len(notes) = 0 THEN Return(EmptyListText, f, io)
  ELSE Return(ListText(notes), f, io)

update_note_Upsert(arguments, notes, f, io) ==
  IF ~HasArg(arguments, "title") THEN Raise("KeyError", <<"title">>, f, io)
  ELSE IF ~HasArg(arguments, "content") THEN Raise("KeyError", <<"content">>, f, io)
  ELSE
    LET title == Arg(arguments, "title")
        content == Arg(arguments, "content")
    IN
    Saved(UpdatedText(title), SetItem(notes, title, content), io)

update_note(arguments, notes, f, io) ==
  IF ~HasArg(arguments, "title") THEN Raise("KeyError", <<"title">>, f, io)
  ELSE IF ~HasArg(arguments, "content") THEN Raise("KeyError", <<"content">>, f, io)
  ELSE
    LET title == Arg(arguments, "title")
        content == Arg(arguments, "content")
    IN
    IF ~Contains(notes, title) THEN Return(UpdateNotFoundText(title), f, io)
    ELSE Saved(UpdatedText(title), SetItem(notes, title, content), io)

delete_note_Get(arguments, notes, f, io) ==
  IF ~HasArg(arguments, "title") THEN Return(NotFoundText(<<"None">>), f, io)
  ELSE
    LET title == Arg(arguments, "title") IN
    IF ~Contains(notes, title) THEN Return(NotFoundText(title), f, io)
    ELSE Saved(DeletedText(title), DelItem(notes, title), io)

delete_note(arguments, notes, f, io) ==
  IF ~HasArg(arguments, "title") THEN Raise("KeyError", <<"title">>, f, io)
  ELSE
    LET title == Arg(arguments, "title") IN
    IF ~Contains(notes, title) THEN Return(NotFoundText(title), f, io)
    ELSE Saved(DeletedText(title), DelItem(notes, title), io)

handle_call_tool_Lenient(name, arguments, f) ==
  LET loaded == load_notes(f)
      notes == loaded.notes
      io == <<"load">>
  IN
  IF ~loaded.ok THEN Raise("JSONDecodeError", <<>>, f, io)
  ELSE IF name = "create_note" THEN create_note(arguments, notes, f, io)
  ELSE IF name = "read_note" THEN read_note(arguments, notes, f, io)
  ELSE IF name = "list_notes" THEN list_notes(notes, f, io)
  ELSE IF name = "update_note" THEN update_note(arguments, notes, f, io)
  ELSE IF name = "delete_note" THEN delete_note(arguments, notes, f, io)
  ELSE Return(<<"Error: ">> \o UnknownToolText(name), f, io)

handle_call_tool(name, arguments, f) ==
  LET loaded == load_notes(f)
      notes == loaded.notes
      io == <<"load">>
  IN
  IF ~loaded.ok THEN Raise("JSONDecodeError", <<>>, f, io)
  ELSE IF name = "create_note" THEN create_note(arguments, notes, f, io)
  ELSE IF name = "read_note" THEN read_note(arguments, notes, f, io)
  ELSE IF name = "list_notes" THEN list_notes(notes, f, io)
  ELSE IF name = "update_note" THEN update_note(arguments, notes, f, io)
  ELSE IF name = "delete_note" THEN delete_note(arguments, notes, f, io)
  ELSE Raise("ValueError", UnknownToolText(name), f, io)

(* ---------------- the state machine ---------------- *)
(* file is NOTES_FILE.  last is the invocation that has just been handled: *)
(* its name and arguments, the file it found (before), what it returned or *)
(* raised, and the storage calls it made.  Before the first invocation     *)
(* last.io is empty.                                                       *)

UnknownNames == {"search_notes"}

OptTitles == {<<>>} \cup {<<t>> : t \in Titles}

OptContents == {<<>>} \cup {<<c>> : c \in Contents}

NoArgs == [title |-> <<>>, content |-> <<>>]

Init ==
  /\ file = NoFile
  /\ last = [name |-> "", arguments |-> NoArgs, before |-> NoFile,
             result |-> [raised |-> "none", text |-> <<>>], io |-> <<>>]

Invoke(name, arguments) ==
  \E out \in {handle_call_tool(name, arguments, file)} :
  /\ file' = out.file
  /\ last' = [name |-> name, arguments |-> arguments, before |-> file,
              result |-> out.result, io |-> out.io]

CreateNote ==
  \E t \in OptTitles, c \in OptContents :
    Invoke("create_note", [title |-> t, content |-> c])

ReadNote == \E t \in OptTitles : Invoke("read_note", [title |-> t, content |-> <<>>])

ListNotes == Invoke("list_notes", NoArgs)

UpdateNote ==
  \E t \in OptTitles, c \in OptContents :
    Invoke("update_note", [title |-> t, content |-> c])

DeleteNote == \E t \in OptTitles : Invoke("delete_note", [title |-> t, content |-> <<>>])

UnknownTool ==
  \E n \in UnknownNames, t \in OptTitles :
    Invoke(n, [title |-> t, content |-> <<>>])

Next ==
  \/ CreateNote
  \/ ReadNote
  \/ ListNotes
  \/ UpdateNote
  \/ DeleteNote
  \/ UnknownTool

Spec == Init /\ [][Next]_vars

(* ---------------- the registry query ---------------- *)
(* The client may ask for the tool list between any two invocations; the   *)
(* answer is recorded in last.tools.                                       *)

ListTools ==
  /\ last' = [name |-> "list_tools", arguments |-> NoArgs, before |-> file,
              result |-> [raised |-> "none", text |-> <<>>], io |-> <<>>,
              tools |-> handle_list_tools]
  /\ UNCHANGED file

NextRegistry == Next \/ ListTools

SpecRegistry == Init /\ [][NextRegistry]_vars

(* ---------------- an external writer ---------------- *)
(* The file "is a simple JSON file you can also edit manually": another    *)
(* writer may replace it with any collection.  It writes compact JSON (no  *)
(* indentation, a line feed at the end), not the layout of save_notes.     *)

MaxExternal == 2

ExternalPool ==
  << << [k |-> TitlePool[2], v |-> ContentPool[2]] >>,
     << [k |-> TitlePool[2], v |-> ContentPool[1]],
        [k |-> TitlePool[1], v |-> ContentPool[2]] >>,
     <<>>,
     << [k |-> TitlePool[1], v |-> ContentPool[1]] >> >>

RECURSIVE ExternalItems(_)
ExternalItems(notes) ==
  IF notes = <<>> THEN <<>>
  ELSE EncodeString(Head(notes).k) \o <<":">> \o EncodeString(Head(notes).v)
         \o (IF Len(notes) > 1 THEN <<",">> ELSE <<>>)
         \o ExternalItems(Tail(notes))

ExternalFile(i) ==
  [exists |-> TRUE, data |-> <<"{">> \o ExternalItems(ExternalPool[i]) \o <<"}", LF>>]

ExternalWrite ==
  /\ \E i \in 1..MaxExternal : file' = ExternalFile(i)
  /\ UNCHANGED last

NextExt == Next \/ ExternalWrite

SpecExt == Init /\ [][NextExt]_vars

Count(io, op) == Cardinality({i \in 1..Len(io) : io[i] = op})

(* ---------------- the handler step by step ---------------- *)
(* The same handler as two steps: Begin runs line 214 (the load), Complete *)
(* runs the dispatch on the loaded copy and the save.  While a handler is  *)
(* between the two, last holds its name, arguments and the file it loaded, *)
(* with result.raised = "pending".  Complete also records the file it      *)
(* found at that moment (replaced).                                        *)
(* handle_call_tool is a coroutine; the event loop can start another       *)
(* pending call only where the running one awaits.  AwaitPoints lists the  *)
(* places between load and save where it does: there is no await in the    *)
(* body.  Any request may be pending at any time.                          *)

AwaitPoints_AfterLoad == {"after_load"}

AwaitPoints == {}

dispatch(name, arguments, loaded, f) ==
  LET notes == loaded.notes
      io == <<"load">>
  IN
  IF ~loaded.ok THEN Raise("JSONDecodeError", <<>>, f, io)
  ELSE IF name = "create_note" THEN create_note(arguments, notes, f, io)
  ELSE IF name = "read_note" THEN read_note(arguments, notes, f, io)
  ELSE IF name = "list_notes" THEN list_notes(notes, f, io)
  ELSE IF name = "update_note" THEN update_note(arguments, notes, f, io)
  ELSE IF name = "delete_note" THEN delete_note(arguments, notes, f, io)
  ELSE Raise("ValueError", UnknownToolText(name), f, io)

Requests ==
  {[name |-> n, arguments |-> [title |-> t, content |-> c]] :
     n \in {"create_note", "update_note"}, t \in OptTitles, c \in OptContents}
  \cup {[name |-> n, arguments |-> [title |-> t, content |-> <<>>]] :
     n \in {"read_note", "delete_note"} \cup UnknownNames, t \in OptTitles}
  \cup {[name |-> "list_notes", arguments |-> NoArgs]}

InFlight == last.result.raised = "pending"

Begin(call) ==
  /\ InFlight => "after_load" \in AwaitPoints
  /\ last' = [name |-> call.name, arguments |-> call.arguments, before |-> file,
              result |-> [raised |-> "pending", text |-> <<>>], io |-> <<"load">>]
  /\ UNCHANGED file

BeginCall == \E call \in Requests : Begin(call)

Complete_Reload ==
  /\ InFlight
  /\ \E out \in {dispatch(last.name, last.arguments, load_notes(file), file)} :
       /\ file' = out.file
       /\ last' = [name |-> last.name, arguments |-> last.arguments,
                   before |-> last.before, result |-> out.result, io |-> out.io,
                   replaced |-> file]

Complete ==
  /\ InFlight
  /\ \E out \in {dispatch(last.name, last.arguments, load_notes(last.before), file)} :
       /\ file' = out.file
       /\ last' = [name |-> last.name, arguments |-> last.arguments,
                   before |-> last.before, result |-> out.result, io |-> out.io,
                   replaced |-> file]

NextAsync == BeginCall \/ Complete

SpecAsync == Init /\ [][NextAsync]_vars

NextRace == BeginCall \/ Complete \/ ExternalWrite

SpecRace == Init /\ [][NextRace]_vars

(* ---------------- a save that fails ---------------- *)
(* save_notes opens the file with mode 'w' and then writes.  If open()     *)
(* raises, the file is as it was.  If the write raises (disk full, I/O     *)
(* error), open() has already truncated the file and only some first       *)
(* characters of the new text are in it.  Either way the OSError leaves    *)
(* handle_call_tool, which has no try/except.                              *)

MaxPartial == 1

SaveFaultOutcomes(old, new) ==
  {old} \cup
  {[exists |-> TRUE, data |-> SubSeq(new.data, 1, n)] :
     n \in {m \in 0..MaxPartial : m < Len(new.data)}}

FailingSave ==
  \E call \in Requests :
    \E out \in {handle_call_tool(call.name, call.arguments, file)} :
      /\ Count(out.io, "save") = 1
      /\ \E damaged \in SaveFaultOutcomes(file, out.file) : file' = damaged
      /\ last' = [name |-> call.name, arguments |-> call.arguments, before |-> file,
                  result |-> [raised |-> "OSError", text |-> <<>>], io |-> out.io]

NextFault == Next \/ FailingSave

SpecFault == Init /\ [][NextFault]_vars

(* ---------------- vocabulary of the properties ---------------- *)

Stored == load_notes(file).notes

StoredBefore == load_notes(last.before).notes

Invoked(call) == call.io # <<>>

Returned(call, text) == call.result = [raised |-> "none", text |-> text]

TitleOf(call) == Arg(call.arguments, "title")

ContentOf(call) == Arg(call.arguments, "content")

HasTitle(call) == HasArg(call.arguments, "title")

HasBoth(call) == HasArg(call.arguments, "title") /\ HasArg(call.arguments, "content")

ReportsSuccess(call) ==
  /\ call.result.raised = "none"
  /\ call.result.text # <<>>
  /\ Head(call.result.text) \in
       {"Successfully created note '", "Successfully updated note '",
        "Successfully deleted note '", "Note '", "Available notes (",
        "No notes found. Create your first note!"}

ReportsError(call) ==
  /\ call.result.raised = "none"
  /\ call.result.text # <<>>
  /\ Head(call.result.text) \in
       {"Error: A note with title '", "Error: No note found with title '"}

(* ---------------- C1 ---------------- *)
(* C1: a create_note(T,C) handled when T was absent reports success and    *)
(* the collection then stores exactly C under T; and a read_note(T)        *)
(* handled right after a successful create_note(T,C) returns the text      *)
(* "Note 'T':\n\nC", with C unmodified.                                    *)
C1_CreateThenRead ==
  [][ /\ ( /\ last.name = "create_note" /\ HasBoth(last)
           /\ ~Contains(StoredBefore, TitleOf(last)) )
         => /\ Returned(last, CreatedText(TitleOf(last)))
            /\ Contains(Stored, TitleOf(last))
            /\ GetItem(Stored, TitleOf(last)) = ContentOf(last)
      /\ ( /\ last.name = "create_note" /\ ReportsSuccess(last)
           /\ last'.name = "read_note" /\ HasTitle(last')
           /\ TitleOf(last') = TitleOf(last) )
         => Returned(last', ReadText(TitleOf(last), ContentOf(last)))
    ]_vars

C1_Witness ==
  /\ last.name = "read_note"
  /\ HasTitle(last)
  /\ Returned(last, ReadText(TitleOf(last), ContentPool[2]))

(* ---------------- C2 ---------------- *)
(* C2: a create_note(T,C2) handled while T existed with content C1         *)
(* returns the duplicate-title error text that points to update_note,      *)
(* makes no save, leaves the file as it was, and T still stores C1; in     *)
(* particular this is what a create_note(T,C2) does right after a          *)
(* successful create_note(T,C1).                                           *)
C2_DuplicateCreate ==
  [][ /\ ( /\ last.name = "create_note" /\ HasBoth(last)
           /\ Contains(StoredBefore, TitleOf(last)) )
         => /\ Returned(last, DuplicateText(TitleOf(last)))
            /\ Count(last.io, "save") = 0
            /\ file = last.before
            /\ Contains(Stored, TitleOf(last))
            /\ GetItem(Stored, TitleOf(last)) = GetItem(StoredBefore, TitleOf(last))
      /\ ( /\ last.name = "create_note" /\ ReportsSuccess(last)
           /\ last'.name = "create_note" /\ HasBoth(last')
           /\ TitleOf(last') = TitleOf(last) )
         => /\ Returned(last', DuplicateText(TitleOf(last)))
            /\ Count(last'.io, "save") = 0
            /\ file' = file
    ]_vars

C2_Witness ==
  /\ last.name = "create_note"
  /\ HasBoth(last)
  /\ Returned(last, DuplicateText(TitleOf(last)))
  /\ Contains(Stored, TitleOf(last))
  /\ GetItem(Stored, TitleOf(last)) # ContentOf(last)

(* ---------------- C3 ---------------- *)
(* C3: an update_note(T,C2) handled when T was absent returns the          *)
(* not-found error text that points to create_note, and the file after it  *)
(* is the file before it: T is not created and no entry changes.           *)
C3_UpdateAbsent ==
  ( /\ last.name = "update_note" /\ HasBoth(last)
    /\ ~Contains(StoredBefore, TitleOf(last)) )
  => /\ Returned(last, UpdateNotFoundText(TitleOf(last)))
     /\ file = last.before
     /\ Stored = StoredBefore
     /\ ~Contains(Stored, TitleOf(last))

C3_Witness ==
  /\ last.name = "update_note"
  /\ HasBoth(last)
  /\ Len(StoredBefore) > 0
  /\ ~Contains(StoredBefore, TitleOf(last))

(* ---------------- C4 ---------------- *)
(* C4: an update_note(T,C2) handled while T was present reports success    *)
(* and T then stores exactly C2, whatever it stored before; a read_note(T) *)
(* handled right after it returns "Note 'T':\n\nC2".                       *)
C4_UpdateReplaces ==
  [][ /\ ( /\ last.name = "update_note" /\ HasBoth(last)
           /\ Contains(StoredBefore, TitleOf(last)) )
         => /\ Returned(last, UpdatedText(TitleOf(last)))
            /\ Contains(Stored, TitleOf(last))
            /\ GetItem(Stored, TitleOf(last)) = ContentOf(last)
      /\ ( /\ last.name = "update_note" /\ ReportsSuccess(last)
           /\ last'.name = "read_note" /\ HasTitle(last')
           /\ TitleOf(last') = TitleOf(last) )
         => Returned(last', ReadText(TitleOf(last), ContentOf(last)))
    ]_vars

C4_Witness ==
  /\ last.name = "update_note"
  /\ ReportsSuccess(last)
  /\ GetItem(StoredBefore, TitleOf(last)) # <<>>
  /\ GetItem(StoredBefore, TitleOf(last)) # ContentOf(last)
  /\ GetItem(Stored, TitleOf(last)) = ContentOf(last)

(* ---------------- C5 ---------------- *)
(* C5: a delete_note(T) handled while T was present reports success and T  *)
(* is no longer a key of the stored collection; and a read_note(T) handled *)
(* right after any delete_note(T), whether T was present or not, returns   *)
(* the not-found error text.                                               *)
C5_DeleteThenRead ==
  [][ /\ ( /\ last.name = "delete_note" /\ HasTitle(last)
           /\ Contains(StoredBefore, TitleOf(last)) )
         => /\ Returned(last, DeletedText(TitleOf(last)))
            /\ ~Contains(Stored, TitleOf(last))
      /\ ( /\ last.name = "delete_note" /\ HasTitle(last)
           /\ last'.name = "read_note" /\ HasTitle(last')
           /\ TitleOf(last') = TitleOf(last) )
         => Returned(last', NotFoundText(TitleOf(last)))
    ]_vars

C5_Witness ==
  /\ last.name = "delete_note"
  /\ ReportsSuccess(last)
  /\ Len(Stored) > 0
  /\ Contains(StoredBefore, TitleOf(last))
  /\ ~Contains(Stored, TitleOf(last))

(* ---------------- C6 ---------------- *)
(* C6: list_notes returns the empty-state message exactly when the         *)
(* collection it loaded is empty (no file counts as empty); otherwise the  *)
(* count it reports is the number of titles and, after the header line,    *)
(* the text has exactly one line per title, every title of the collection  *)
(* being the content of exactly one line "- title".                        *)
RECURSIVE SplitLines(_, _)
SplitLines(text, line) ==
  IF text = <<>> THEN <<line>>
  ELSE IF Head(text) = LF THEN <<line>> \o SplitLines(Tail(text), <<>>)
  ELSE SplitLines(Tail(text), Append(line, Head(text)))

C6_ListNotes ==
  last.name = "list_notes" =>
    LET n == Len(StoredBefore)
        text == last.result.text
        lines == SplitLines(text, <<>>)
    IN
    /\ last.result.raised = "none"
    /\ (text = EmptyListText) <=> (n = 0)
    /\ n > 0 =>
         /\ lines[1] = <<"Available notes (", ToString(n), "):">>
         /\ Len(lines) = n + 1
         /\ \A i \in 1..n :
              Cardinality({j \in 2..Len(lines) :
                             lines[j] = <<"- ">> \o StoredBefore[i].k}) = 1

(* ---------------- C7 ---------------- *)
(* C7: every invocation of one of the five tools makes exactly one load;   *)
(* create_note, update_note and delete_note make exactly one save when     *)
(* they report success and none when they return a business-rule error;    *)
(* read_note and list_notes make no save; a save is always preceded by the *)
(* load; and the file differs from the file found only when the            *)
(* invocation reports success.                                             *)
C7_LoadsAndSaves ==
  (Invoked(last) /\ last.name \in ToolNames) =>
    /\ Count(last.io, "load") = 1
    /\ last.name \in {"create_note", "update_note", "delete_note"} =>
         /\ ReportsSuccess(last) => Count(last.io, "save") = 1
         /\ ReportsError(last) => Count(last.io, "save") = 0
    /\ last.name \in {"read_note", "list_notes"} => Count(last.io, "save") = 0
    /\ \A i \in 1..Len(last.io) :
         last.io[i] = "save" => \E j \in 1..(i - 1) : last.io[j] = "load"
    /\ file # last.before => ReportsSuccess(last)
    /\ Stored # StoredBefore => ReportsSuccess(last)

C7_Witness ==
  /\ last.name = "delete_note"
  /\ ReportsSuccess(last)
  /\ last.io = <<"load", "save">>
  /\ file # last.before

(* ---------------- C8 ---------------- *)
(* C8: an invocation raises the unknown-tool ValueError exactly when its   *)
(* name is not one of the five names of the registry; it is then raised    *)
(* and not returned as text, the file is left as found and no save is      *)
(* made; and an invocation of a registered tool with its required          *)
(* arguments handled right after such a failure returns a text result.     *)
C8_UnknownTool ==
  [][ /\ Invoked(last) =>
           /\ (last.result.raised = "ValueError") <=> (last.name \notin ToolNames)
           /\ last.name \notin ToolNames =>
                /\ last.result =
                     [raised |-> "ValueError", text |-> UnknownToolText(last.name)]
                /\ file = last.before
                /\ Count(last.io, "save") = 0
      /\ ( /\ last.result.raised = "ValueError"
           /\ last'.name \in ToolNames
           /\ \A k \in Required(last'.name) : HasArg(last'.arguments, k) )
         => (ReportsSuccess(last') \/ ReportsError(last'))
    ]_vars

C8_Witness ==
  /\ last.name \in UnknownNames
  /\ last.result.raised = "ValueError"
  /\ Len(Stored) > 0

(* ---------------- C9 ---------------- *)
(* C9: an invocation of a registered tool that lacks an argument the       *)
(* registry declares required raises KeyError (no text result), makes no   *)
(* save and leaves the file as found; an invocation that supplies every    *)
(* required argument never raises KeyError.                                *)
C9_MissingArgument ==
  (Invoked(last) /\ last.name \in ToolNames) =>
    LET missing == {k \in Required(last.name) : ~HasArg(last.arguments, k)} IN
    /\ missing # {} =>
         /\ last.result.raised = "KeyError"
         /\ last.result.text \in {<<k>> : k \in missing}
         /\ Count(last.io, "save") = 0
         /\ file = last.before
    /\ missing = {} => last.result.raised # "KeyError"

C9_Witness ==
  /\ last.name = "delete_note"
  /\ ~HasTitle(last)
  /\ last.result.raised = "KeyError"
  /\ Len(Stored) > 0

(* ---------------- C10 ---------------- *)
(* C10: in every reachable state every key of the stored collection is a   *)
(* non-empty title, and no title is a key twice.                           *)
C10_TitlesNonEmpty ==
  /\ \A i \in 1..Len(Stored) : Stored[i].k # <<>>
  /\ \A i, j \in 1..Len(Stored) : Stored[i].k = Stored[j].k => i = j

(* ---------------- C11 ---------------- *)
(* C11: whenever an invocation has saved a mapping M (the mapping it       *)
(* loaded with its one change applied), loading the file it wrote succeeds *)
(* and returns M: the same keys in the same order with the same values,    *)
(* also for empty and multi-line contents.                                 *)
HandedToSave(call, notes) ==
  IF call.name = "delete_note" THEN DelItem(notes, TitleOf(call))
  ELSE SetItem(notes, TitleOf(call), ContentOf(call))

KeySet(notes) == {notes[i].k : i \in 1..Len(notes)}

C11_RoundTrip ==
  (Invoked(last) /\ Count(last.io, "save") = 1) =>
    LET M == HandedToSave(last, StoredBefore)
        back == load_notes(file)
    IN
    /\ back.ok
    /\ KeySet(back.notes) = KeySet(M)
    /\ \A k \in KeySet(M) : GetItem(back.notes, k) = GetItem(M, k)
    /\ back.notes = M

C11_Witness ==
  /\ Invoked(last)
  /\ Count(last.io, "save") = 1
  /\ Len(Stored) = 2
  /\ \E i \in 1..2 : Stored[i].v = <<>>
  /\ \E i \in 1..2 : \E j \in 1..Len(Stored[i].v) : Stored[i].v[j] = LF

(* ---------------- C17 ---------------- *)
(* C17: after any invocation with title argument T, every other title is   *)
(* stored iff it was stored before, with the same content; a successful    *)
(* create_note adds exactly the key T, a successful delete_note removes    *)
(* exactly the key T, a successful update_note leaves the key set as it    *)
(* was.                                                                    *)
C17_Frame ==
  Invoked(last) =>
    LET touched == IF HasTitle(last) THEN {TitleOf(last)} ELSE {}
        old == KeySet(StoredBefore)
        new == KeySet(Stored)
    IN
    /\ old \ touched = new \ touched
    /\ \A u \in old \ touched : GetItem(Stored, u) = GetItem(StoredBefore, u)
    /\ (last.name = "create_note" /\ ReportsSuccess(last)) =>
         (TitleOf(last) \notin old /\ new = old \cup {TitleOf(last)})
    /\ (last.name = "delete_note" /\ ReportsSuccess(last)) =>
         (TitleOf(last) \in old /\ new = old \ {TitleOf(last)})
    /\ (last.name = "update_note" /\ ReportsSuccess(last)) => new = old

C17_Witness ==
  /\ last.name = "create_note"
  /\ ReportsSuccess(last)
  /\ Len(StoredBefore) > 0
  /\ Len(Stored) = Len(StoredBefore) + 1

(* ---------------- C18 ---------------- *)
(* C18: with its arguments supplied, create_note succeeds iff the title    *)
(* was absent, and read_note, update_note and delete_note succeed iff it   *)
(* was present (otherwise each returns an error text); in every state, for *)
(* every title and content, exactly one of create_note and update_note     *)
(* would succeed; and a create_note(T,.) right after a successful          *)
(* delete_note(T) succeeds.                                                *)
WouldSucceed(name, title, content) ==
  ReportsSuccess(
    [result |-> handle_call_tool(name, [title |-> <<title>>, content |-> <<content>>],
                                 file).result])

C18_PresenceDecides ==
  [][ /\ (Invoked(last) /\ last.name = "create_note" /\ HasBoth(last)) =>
           /\ ReportsSuccess(last) <=> ~Contains(StoredBefore, TitleOf(last))
           /\ ReportsError(last) <=> Contains(StoredBefore, TitleOf(last))
      /\ (Invoked(last) /\ last.name = "update_note" /\ HasBoth(last)) =>
           /\ ReportsSuccess(last) <=> Contains(StoredBefore, TitleOf(last))
           /\ ReportsError(last) <=> ~Contains(StoredBefore, TitleOf(last))
      /\ (Invoked(last) /\ last.name \in {"read_note", "delete_note"} /\ HasTitle(last)) =>
           /\ ReportsSuccess(last) <=> Contains(StoredBefore, TitleOf(last))
           /\ ReportsError(last) <=> ~Contains(StoredBefore, TitleOf(last))
      /\ \A t \in Titles, c \in Contents :
           WouldSucceed("create_note", t, c) # WouldSucceed("update_note", t, c)
      /\ ( /\ last.name = "delete_note" /\ ReportsSuccess(last)
           /\ last'.name = "create_note" /\ HasBoth(last')
           /\ TitleOf(last') = TitleOf(last) )
         => ReportsSuccess(last')
    ]_vars

C18_Witness ==
  /\ last.name = "read_note"
  /\ ReportsSuccess(last)
  /\ GetItem(StoredBefore, TitleOf(last)) = <<>>
  /\ \E c \in Contents : ~WouldSucceed("create_note", TitleOf(last), c)

(* ---------------- C19 ---------------- *)
(* C19: the stored order of the titles is their order of creation: a       *)
(* successful create_note(T,.) puts T after all titles stored before, a    *)
(* successful update_note keeps every position, a successful delete_note   *)
(* removes T and keeps the order of the rest, any other invocation keeps   *)
(* the order; and list_notes enumerates the titles in that stored order.   *)
(* Hence a delete_note(T) followed by create_note(T,.) moves T to the end. *)
WithoutKey(keys, title) == SelectSeq(keys, LAMBDA k : k # title)

C19_CreationOrder ==
  Invoked(last) =>
    LET old == Keys(StoredBefore)
        new == Keys(Stored)
    IN
    /\ IF last.name = "create_note" /\ ReportsSuccess(last)
       THEN new = Append(old, TitleOf(last))
       ELSE IF last.name = "delete_note" /\ ReportsSuccess(last)
       THEN new = WithoutKey(old, TitleOf(last))
       ELSE new = old
    /\ (last.name = "list_notes" /\ old # <<>>) =>
         Returned(last, <<"Available notes (", ToString(Len(old)), "):", LF>>
                          \o JoinTitles(old))

C19_Witness ==
  /\ last.name = "update_note"
  /\ ReportsSuccess(last)
  /\ Len(Stored) = 2
  /\ Stored[1].k = TitleOf(last)
  /\ Stored[1].v # StoredBefore[1].v

(* ---------------- C15 ---------------- *)
(* C15: at every point of every sequence of invocations the registry query *)
(* answers with the same five descriptors in the order create_note,        *)
(* read_note, list_notes, update_note, delete_note; it raises nothing,     *)
(* makes no load and no save, and leaves the file as it is.                *)
C15_Registry ==
  [][ last'.name = "list_tools" =>
        /\ Len(last'.tools) = 5
        /\ [i \in 1..5 |-> last'.tools[i].name] =
             <<"create_note", "read_note", "list_notes", "update_note", "delete_note">>
        /\ [i \in 1..5 |-> last'.tools[i].required] =
             <<{"title", "content"}, {"title"}, {}, {"title", "content"}, {"title"}>>
        /\ last'.result.raised = "none"
        /\ last'.io = <<>>
        /\ file' = file
    ]_vars

C15_Witness ==
  /\ last.name = "list_tools"
  /\ Len(last.tools) = 5
  /\ Len(Stored) = 2

(* ---------------- C14 ---------------- *)
(* C14: when the file holds a collection M put there by the external       *)
(* writer, the next invocation of a registered tool with its required      *)
(* arguments returns what the operation returns on M and, if it saves,     *)
(* leaves the file save_notes writes for M with its one change; otherwise  *)
(* it leaves the file as it is.  Nothing an earlier invocation loaded or   *)
(* saved enters the outcome.                                               *)
TextOn(M, call) ==
  LET present == HasTitle(call) /\ TitleOf(call) \in KeySet(M) IN
  IF call.name = "create_note"
  THEN IF present THEN DuplicateText(TitleOf(call)) ELSE CreatedText(TitleOf(call))
  ELSE IF call.name = "read_note"
  THEN IF present THEN ReadText(TitleOf(call), GetItem(M, TitleOf(call)))
       ELSE NotFoundText(TitleOf(call))
  ELSE IF call.name = "list_notes"
  THEN IF M = <<>> THEN EmptyListText ELSE ListText(M)
  ELSE IF call.name = "update_note"
  THEN IF present THEN UpdatedText(TitleOf(call)) ELSE UpdateNotFoundText(TitleOf(call))
  ELSE IF present THEN DeletedText(TitleOf(call)) ELSE NotFoundText(TitleOf(call))

SavesOn(M, call) ==
  LET present == HasTitle(call) /\ TitleOf(call) \in KeySet(M) IN
  \/ call.name = "create_note" /\ ~present
  \/ call.name \in {"update_note", "delete_note"} /\ present

C14_NoCache ==
  [][ ( /\ \E i \in 1..MaxExternal : file = ExternalFile(i)
        /\ last' # last
        /\ last'.name \in ToolNames
        /\ \A k \in Required(last'.name) : HasArg(last'.arguments, k) )
      => LET M == ExternalPool[CHOOSE i \in 1..MaxExternal : file = ExternalFile(i)] IN
         /\ Returned(last', TextOn(M, last'))
         /\ last'.before = file
         /\ IF SavesOn(M, last')
            THEN file' = save_notes(HandedToSave(last', M))
            ELSE file' = file
    ]_vars

C14_Witness ==
  /\ \E i \in 1..MaxExternal : last.before = ExternalFile(i)
  /\ last.name = "update_note"
  /\ ReportsSuccess(last)
  /\ Len(Stored) = 2
  /\ file = save_notes(Stored)

(* ---------------- C12 ---------------- *)
(* C12: when the save of an invocation fails, the invocation raises after  *)
(* exactly one save attempt, the file can still be loaded and holds the    *)
(* collection it held before the invocation, and invoking the same tool    *)
(* with the same arguments again gives the result the first invocation     *)
(* would have given.                                                       *)
C12_FailedSaveIsSafe ==
  last.result.raised = "OSError" =>
    /\ Count(last.io, "save") = 1
    /\ load_notes(file).ok
    /\ Stored = StoredBefore
    /\ handle_call_tool(last.name, last.arguments, file).result
         = handle_call_tool(last.name, last.arguments, last.before).result

(* ---------------- C13 ---------------- *)
(* C13: while a handler is between its load and its save, the only step    *)
(* of the server is that handler's own completion, whatever calls are      *)
(* pending; the file is still the file it loaded, and the file its save    *)
(* replaces is the file it loaded.                                         *)
C13_NoOverlap ==
  [][ InFlight =>
        /\ file = last.before
        /\ last'.name = last.name
        /\ last'.arguments = last.arguments
        /\ last'.before = last.before
        /\ last'.result.raised # "pending"
        /\ last'.replaced = last.before
    ]_vars

C13_Witness ==
  /\ Invoked(last)
  /\ ~InFlight
  /\ Count(last.io, "save") = 1
  /\ last.replaced = last.before
  /\ Len(Stored) = 2

(* ---------------- C16 ---------------- *)
(* C16: when a handler saves, the file it writes is save_notes of the copy *)
(* it loaded with its one change, whatever the file holds at that moment:  *)
(* what an external writer wrote between the load and the save is          *)
(* replaced, and a note only the external writer had put there is gone.    *)
C16_LostUpdate ==
  [][ (InFlight /\ last'.result.raised # "pending" /\ Count(last'.io, "save") = 1) =>
        /\ last'.replaced = file
        /\ LET written == HandedToSave(last, StoredBefore) IN
           /\ file' = save_notes(written)
           /\ \A i \in 1..MaxExternal :
                file = ExternalFile(i) =>
                  \A e \in {ExternalPool[i][j] : j \in 1..Len(ExternalPool[i])} :
                    e.k # TitleOf(last) =>
                      IF Contains(StoredBefore, e.k)
                      THEN GetItem(written, e.k) = GetItem(StoredBefore, e.k)
                      ELSE ~Contains(written, e.k)
    ]_vars

C16_Witness ==
  /\ Invoked(last)
  /\ ~InFlight
  /\ Count(last.io, "save") = 1
  /\ last.replaced # last.before
  /\ file = save_notes(HandedToSave(last, StoredBefore))
  /\ \E k \in KeySet(load_notes(last.replaced).notes) : ~Contains(Stored, k)

====
